---- MODULE Spec2Model ----
(***************************************************************************)
(* Model of the contract-tagging benchmark: the field-aware evaluator      *)
(* (src/eval-script-2.py) and the prediction generator                     *)
(* (src/prediction_setups/perplexity-chain-data.py).                       *)
(*                                                                         *)
(* Strings are sequences of one-character strings.  Floating-point scores  *)
(* are kept as exact fractions <<numerator, denominator>> in lowest terms; *)
(* the bag-of-words cosine is kept as its square (the cosine is never      *)
(* negative, so the square orders the same way).                           *)
(***************************************************************************)
EXTENDS Integers, Sequences, FiniteSets, TLC

(***************************************************************************)
(* Bounds of the model.                                                    *)
(***************************************************************************)
MaxStrLen == 3
MaxRecords == 2
MaxEntries == 2

(***************************************************************************)
(* Text.                                                                   *)
(***************************************************************************)
Alphabet == {"a", "A", "b", " "}

WordChars == {"a", "A", "b", "B"}

Empty == << >>

RECURSIVE StringsUpTo(_)
StringsUpTo(n) ==
    IF n = 0 THEN {Empty}
    ELSE LET shorter == StringsUpTo(n - 1)
         IN  shorter \cup {Append(s, c) : s \in shorter, c \in Alphabet}

\* 'aaaabbaabab' and 'aaaababaaab': eleven characters each, ten of which the
\* matching-block algorithm pairs up in one argument order and nine in the other.
LongA == <<"a", "a", "a", "a", "b", "b", "a", "a", "b", "a", "b">>

LongB == <<"a", "a", "a", "a", "b", "a", "b", "a", "a", "a", "b">>

\* 'a ab': against 'a b' the cosine of the word counts is exactly one half.
TwoWords == <<"a", " ", "a", "b">>

Strings == StringsUpTo(MaxStrLen) \cup {LongA, LongB, TwoWords}

Min(x, y) == IF x <= y THEN x ELSE y

Max(x, y) == IF x >= y THEN x ELSE y

RECURSIVE GCD(_, _)
GCD(x, y) == IF y = 0 THEN x ELSE GCD(y, x % y)

\* A fraction in lowest terms.
Frac(n, d) == LET g == GCD(n, d) IN <<n \div g, d \div g>>

Zero == <<0, 1>>

One == <<1, 1>>

FracAdd(x, y) == Frac(x[1] * y[2] + y[1] * x[2], x[2] * y[2])

FracMul(x, y) == Frac(x[1] * y[1], x[2] * y[2])

FracDiv(x, y) == Frac(x[1] * y[2], x[2] * y[1])

FracGT(x, y) == x[1] * y[2] > y[1] * x[2]

FracGE(x, y) == x[1] * y[2] >= y[1] * x[2]

\* str.lower() over the alphabet.
LowerChar(c) == IF c = "A" THEN "a" ELSE IF c = "B" THEN "b" ELSE c

Lower(s) == [i \in 1..Len(s) |-> LowerChar(s[i])]

(***************************************************************************)
(* difflib.SequenceMatcher(None, a, b) with no junk.  Offsets are 0-based  *)
(* and ranges half-open, as in the library; the popularity heuristic only  *)
(* applies to second arguments of 200 characters or more.                  *)
(***************************************************************************)
RECURSIVE RunLen(_, _, _, _, _, _)
RunLen(a, b, i, j, ahi, bhi) ==
    IF i < ahi /\ j < bhi /\ a[i + 1] = b[j + 1]
    THEN 1 + RunLen(a, b, i + 1, j + 1, ahi, bhi)
    ELSE 0

\* The longest block a[i:i+k] = b[j:j+k] inside a[alo:ahi] x b[blo:bhi]:
\* k maximal, then i minimal, then j minimal.
find_longest_match(a, b, alo, ahi, blo, bhi) ==
    LET Cand == {<<i, j>> : i \in alo..(ahi - 1), j \in blo..(bhi - 1)}
        best == IF Cand = {} THEN 0
                ELSE CHOOSE k \in 0..(ahi - alo) :
                       /\ \E c \in Cand : RunLen(a, b, c[1], c[2], ahi, bhi) = k
                       /\ \A c \in Cand : RunLen(a, b, c[1], c[2], ahi, bhi) <= k
    IN  IF best = 0 THEN [i |-> alo, j |-> blo, size |-> 0]
        ELSE LET Hit == {c \in Cand : RunLen(a, b, c[1], c[2], ahi, bhi) = best}
                 bi == CHOOSE i \in alo..(ahi - 1) :
                         /\ \E c \in Hit : c[1] = i
                         /\ \A c \in Hit : c[1] >= i
                 bj == CHOOSE j \in blo..(bhi - 1) :
                         /\ <<bi, j>> \in Hit
                         /\ \A c \in Hit : c[1] = bi => c[2] >= j
             IN  [i |-> bi, j |-> bj, size |-> best]

\* Total size of the blocks get_matching_blocks collects: the longest block,
\* then the same to its left and to its right.
RECURSIVE MatchedChars(_, _, _, _, _, _)
MatchedChars(a, b, alo, ahi, blo, bhi) ==
    LET m == find_longest_match(a, b, alo, ahi, blo, bhi)
    IN  IF m.size = 0 THEN 0
        ELSE m.size
             + (IF alo < m.i /\ blo < m.j
                THEN MatchedChars(a, b, alo, m.i, blo, m.j) ELSE 0)
             + (IF m.i + m.size < ahi /\ m.j + m.size < bhi
                THEN MatchedChars(a, b, m.i + m.size, ahi, m.j + m.size, bhi) ELSE 0)

\* SequenceMatcher.ratio(): 2.0 * matches / length, and 1.0 when both are empty.
Ratio(a, b) ==
    LET length == Len(a) + Len(b)
    IN  IF length = 0 THEN One
        ELSE Frac(2 * MatchedChars(a, b, 0, Len(a), 0, Len(b)), length)

\* The ratio of the strings as they are, without lower().
calculate_similarity_cased(text1, text2) == Ratio(text1, text2)

\* The ratio with lower() applied to the first string only.
calculate_similarity_first_lowered(text1, text2) == Ratio(Lower(text1), text2)

calculate_similarity(text1, text2) == Ratio(Lower(text1), Lower(text2))

(***************************************************************************)
(* CountVectorizer(token_pattern = \b\w+\b) and cosine_similarity.         *)
(***************************************************************************)
\* The maximal runs of word characters of s, left to right.
RECURSIVE TokensFrom(_, _, _)
TokensFrom(s, i, cur) ==
    IF i > Len(s)
    THEN IF cur = Empty THEN << >> ELSE <<cur>>
    ELSE IF s[i] \in WordChars
         THEN TokensFrom(s, i + 1, Append(cur, s[i]))
         ELSE IF cur = Empty
              THEN TokensFrom(s, i + 1, Empty)
              ELSE <<cur>> \o TokensFrom(s, i + 1, Empty)

Tokens(s) == TokensFrom(Lower(s), 1, Empty)

Count(tok, toks) == Cardinality({i \in 1..Len(toks) : toks[i] = tok})

RECURSIVE SumOver(_, _, _, _)
SumOver(vocab, t1, t2, done) ==
    IF vocab = done THEN 0
    ELSE LET w == CHOOSE x \in vocab \ done : TRUE
         IN  Count(w, t1) * Count(w, t2) + SumOver(vocab, t1, t2, done \cup {w})

Vocabulary(t1, t2) == {t1[i] : i \in 1..Len(t1)} \cup {t2[i] : i \in 1..Len(t2)}

Dot(t1, t2) == SumOver(Vocabulary(t1, t2), t1, t2, {})

\* A cosine that scores two texts with the same tokens 1.0 before it
\* vectorises them.
calculate_cosine_similarity_shortcut(text1, text2) ==
    LET t1 == Tokens(text1)
        t2 == Tokens(text2)
    IN  IF t1 = t2 THEN One
        ELSE IF Dot(t1, t1) = 0 \/ Dot(t2, t2) = 0 THEN Zero
        ELSE Frac(Dot(t1, t2) * Dot(t1, t2), Dot(t1, t1) * Dot(t2, t2))

\* fit_transform raises on an empty vocabulary and the bare except maps that
\* to 0.0; a row of zeros is left as it is by the normalisation, so its
\* product with any row is 0.0.  The value is the square of the cosine.
calculate_cosine_similarity(text1, text2) ==
    LET t1 == Tokens(text1)
        t2 == Tokens(text2)
    IN  IF Vocabulary(t1, t2) = {} THEN Zero
        ELSE IF Dot(t1, t1) = 0 \/ Dot(t2, t2) = 0 THEN Zero
        ELSE Frac(Dot(t1, t2) * Dot(t1, t2), Dot(t1, t1) * Dot(t2, t2))

(***************************************************************************)
(* Ordered dictionaries (Python dict): a sequence of [k, v] entries in     *)
(* insertion order; assigning to an existing key keeps its place.          *)
(***************************************************************************)
Keys(d) == [i \in 1..Len(d) |-> d[i].k]

HasKey(d, key) == \E i \in 1..Len(d) : d[i].k = key

Lookup(d, key) == d[CHOOSE i \in 1..Len(d) : d[i].k = key].v

DictSet(d, key, val) ==
    IF HasKey(d, key)
    THEN [i \in 1..Len(d) |-> IF d[i].k = key THEN [k |-> key, v |-> val] ELSE d[i]]
    ELSE Append(d, [k |-> key, v |-> val])

RECURSIVE SeqsUpTo(_, _)
SeqsUpTo(S, n) ==
    IF n = 0 THEN {<< >>}
    ELSE LET shorter == SeqsUpTo(S, n - 1)
         IN  shorter \cup {Append(s, x) : s \in shorter, x \in S}

(***************************************************************************)
(* The field schema.                                                       *)
(***************************************************************************)
FIELD_DEFINITIONS ==
    << [name |-> "Contract Address", type |-> "rich_address",
        is_identifier |-> TRUE, evaluation |-> "exact"],
       [name |-> "Public Name Tag", type |-> "text",
        is_identifier |-> TRUE, evaluation |-> "ner"],
       [name |-> "Project Name", type |-> "text",
        is_identifier |-> TRUE, evaluation |-> "ner"],
       [name |-> "UI/Website Link", type |-> "link",
        is_identifier |-> TRUE, evaluation |-> "exact"],
       [name |-> "Public Note", type |-> "text",
        is_identifier |-> FALSE, evaluation |-> "semantic"] >>

NumFields == Len(FIELD_DEFINITIONS)

FieldOrder == [i \in 1..NumFields |-> FIELD_DEFINITIONS[i].name]

FieldNames == {FIELD_DEFINITIONS[i].name : i \in 1..NumFields}

Strategy(field) ==
    FIELD_DEFINITIONS[CHOOSE i \in 1..NumFields : FIELD_DEFINITIONS[i].name = field].evaluation

\* similarity > 0.9
NearThreshold == <<9, 10>>

\* similarity >= 0.5
SemanticThreshold == <<1, 2>>

(***************************************************************************)
(* Field comparators.                                                      *)
(***************************************************************************)
evaluate_exact_field(gt, pred) ==
    [exact_match |-> IF Lower(gt) = Lower(pred) THEN 1 ELSE 0,
     ground_truth |-> gt,
     prediction |-> pred]

evaluate_ner_field(gt, pred) ==
    LET similarity == calculate_similarity(gt, pred)
    IN  [exact_match |-> IF Lower(gt) = Lower(pred) THEN 1 ELSE 0,
         near_match |-> IF FracGT(similarity, NearThreshold) THEN 1 ELSE 0,
         similarity |-> similarity,
         ground_truth |-> gt,
         prediction |-> pred]

\* The outcomes of similarity >= 0.5 for a squared cosine.  The product of
\* the two normalised rows is rounded, so a cosine of exactly one half can
\* come out as 0.4999999999999999: both outcomes are kept there.
MeetsThreshold(sim2) ==
    LET bound == FracMul(SemanticThreshold, SemanticThreshold)
    IN  IF sim2 = bound THEN {0, 1}
        ELSE IF FracGE(sim2, bound) THEN {1} ELSE {0}

\* A semantic comparator that also reports a case-insensitive exact match.
evaluate_semantic_field_with_exact(gt, pred) ==
    LET similarity == calculate_cosine_similarity(gt, pred)
    IN  {[exact_match |-> IF Lower(gt) = Lower(pred) THEN 1 ELSE 0,
          similarity |-> similarity,
          meets_threshold |-> m,
          ground_truth |-> gt,
          prediction |-> pred] : m \in MeetsThreshold(similarity)}

\* The verdicts evaluate_semantic_field can return.
evaluate_semantic_field(gt, pred) ==
    LET similarity == calculate_cosine_similarity(gt, pred)
    IN  {[similarity |-> similarity,
          meets_threshold |-> m,
          ground_truth |-> gt,
          prediction |-> pred] : m \in MeetsThreshold(similarity)}

\* The harmonic mean without its factor 2.
calculate_f1_score_half(precision, recall) ==
    IF FracAdd(precision, recall) = Zero THEN Zero
    ELSE FracDiv(FracMul(precision, recall), FracAdd(precision, recall))

calculate_f1_score(precision, recall) ==
    IF FracAdd(precision, recall) = Zero THEN Zero
    ELSE FracDiv(FracMul(<<2, 1>>, FracMul(precision, recall)),
                 FracAdd(precision, recall))

(***************************************************************************)
(* evaluate_dataset.                                                       *)
(***************************************************************************)
\* dict.get(field, "")
Get(entry, field) == IF field \in DOMAIN entry THEN entry[field] ELSE Empty

\* itertools.zip_longest with an empty record as fill value.
ZipLongest(gts, preds) ==
    [i \in 1..Max(Len(gts), Len(preds)) |->
        <<IF i <= Len(gts) THEN gts[i] ELSE << >>,
          IF i <= Len(preds) THEN preds[i] ELSE << >> >>]

\* zip(ground_truth, predictions)
Zip(gts, preds) == [i \in 1..Min(Len(gts), Len(preds)) |-> <<gts[i], preds[i]>>]

\* The verdicts the comparator of a strategy can return.
FieldVerdicts(evaluation, gt_value, pred_value) ==
    IF evaluation = "exact" THEN {evaluate_exact_field(gt_value, pred_value)}
    ELSE IF evaluation = "ner" THEN {evaluate_ner_field(gt_value, pred_value)}
    ELSE evaluate_semantic_field(gt_value, pred_value)

\* An update that counts the record only in the exact and ner branches.
UpdateMetricsTotalInBranch(metrics, evaluation, res) ==
    IF evaluation = "exact"
    THEN [exact |-> metrics.exact + res.exact_match,
          near |-> metrics.near + res.exact_match,
          total |-> metrics.total + 1]
    ELSE IF evaluation = "ner"
    THEN [exact |-> metrics.exact + res.exact_match,
          near |-> metrics.near + res.near_match,
          total |-> metrics.total + 1]
    ELSE [exact |-> metrics.exact,
          near |-> metrics.near + res.meets_threshold,
          total |-> metrics.total]

\* The accumulator of one field after one verdict.
UpdateMetrics(metrics, evaluation, result) ==
    IF evaluation = "exact"
    THEN [exact |-> metrics.exact + result.exact_match,
          near |-> metrics.near + result.exact_match,
          total |-> metrics.total + 1]
    ELSE IF evaluation = "ner"
    THEN [exact |-> metrics.exact + result.exact_match,
          near |-> metrics.near + result.near_match,
          total |-> metrics.total + 1]
    ELSE [exact |-> metrics.exact,
          near |-> metrics.near + result.meets_threshold,
          total |-> metrics.total + 1]

\* The post-pass divides by total without a guard for exact_match_rate and
\* for semantic_similarity_rate.
AggregateRaises(evaluation, metrics) == metrics.total = 0

AggregateMetric(evaluation, metrics) ==
    IF evaluation \in {"exact", "ner"}
    THEN LET precision == IF metrics.total > 0
                          THEN Frac(metrics.exact, metrics.total) ELSE Zero
             recall == IF metrics.total > 0
                       THEN Frac(metrics.near, metrics.total) ELSE Zero
         IN  [precision |-> precision,
              recall |-> recall,
              f1_score |-> calculate_f1_score(precision, recall),
              exact_match_rate |-> Frac(metrics.exact, metrics.total)]
    ELSE [semantic_similarity_rate |-> Frac(metrics.near, metrics.total)]

\* The lines the summary prints for one field (values are printed with two
\* decimals; only the labels are kept).
SummaryLines(field, metrics) ==
    <<[kind |-> "field", text |-> field]>>
    \o (IF "f1_score" \in DOMAIN metrics
        THEN <<[kind |-> "metric", text |-> "F1 Score"],
               [kind |-> "metric", text |-> "Precision"],
               [kind |-> "metric", text |-> "Recall"]>>
        ELSE <<[kind |-> "metric", text |-> "Semantic Similarity Rate"]>>)

(***************************************************************************)
(* State.                                                                  *)
(***************************************************************************)
VARIABLES
    \* eval-script-2.py
    ground_truth,       \* records loaded from the ground-truth file
    predictions,        \* records loaded from the predictions file
    pc,                 \* position of the evaluation script
    idx,                \* number of paired records fully processed
    fpos,               \* number of fields of the current record processed
    entry_results,      \* verdicts of the current record
    results,            \* individual_results
    field_metrics,      \* field -> [exact, near, total]
    apos,               \* number of fields aggregated by the post-pass
    ppos,               \* number of fields printed by the summary
    aggregate_results,  \* ordered dictionary field -> aggregate metric
    report,             \* the value evaluate_dataset returned
    sink,               \* evaluation_results.json
    stdout,             \* the lines printed
    error,              \* the exception that ended the script, or "none"
    \* one call of a field comparator
    text1, text2, verdict,
    \* perplexity-chain-data.py
    entries,            \* entries loaded from the ground-truth file
    gpc,                \* position of main
    gi,                 \* number of entries processed
    address,            \* address of the entry being processed
    result,             \* what query_perplexity returned for it
    output,             \* the lines written to the predictions file
    predictions_list,   \* the list main calls predictions
    failed_addresses,
    gerror              \* the exception main caught, or "none"

evalVars == <<ground_truth, predictions, pc, idx, fpos, entry_results, results,
              field_metrics, apos, ppos, aggregate_results, report, sink, stdout,
              error>>

textVars == <<text1, text2, verdict>>

genVars == <<entries, gpc, gi, address, result, output, predictions_list,
             failed_addresses, gerror>>

vars == <<evalVars, textVars, genVars>>

(***************************************************************************)
(* Inputs of the evaluation script.                                        *)
(***************************************************************************)
RecA ==
    [f \in FieldNames |->
        CASE f = "Contract Address" -> <<"a", "B">>
          [] f = "Public Name Tag" -> LongA
          [] f = "Project Name" -> <<"a", "b">>
          [] f = "UI/Website Link" -> <<"a">>
          [] f = "Public Note" -> <<"a", " ", "b">>]

RecB ==
    [f \in FieldNames \cup {"Extra"} |->
        CASE f = "Contract Address" -> <<"A", "b">>
          [] f = "Public Name Tag" -> LongB
          [] f = "Project Name" -> <<"a", "B">>
          [] f = "UI/Website Link" -> <<"b">>
          [] f = "Public Note" -> <<"b", " ", "a">>
          [] f = "Extra" -> <<"a">>]

RecC == [f \in {"Extra"} |-> <<"a">>]

RecD ==
    [f \in {"Contract Address", "Public Name Tag", "Public Note"} |->
        CASE f = "Contract Address" -> <<"a", "b">>
          [] f = "Public Name Tag" -> LongA
          [] f = "Public Note" -> <<"a">>]

SampleRecords == {RecA, RecB, RecC, RecD}

NoMetrics == [f \in FieldNames |-> [exact |-> 0, near |-> 0, total |-> 0]]

NoReport == [individual_results |-> << >>, aggregate_results |-> << >>]

NoFile == [status |-> "absent", content |-> NoReport]

IdleEval ==
    /\ ground_truth = << >>
    /\ predictions = << >>
    /\ pc = "idle"
    /\ idx = 0
    /\ fpos = 0
    /\ entry_results = << >>
    /\ results = << >>
    /\ field_metrics = NoMetrics
    /\ apos = 0
    /\ ppos = 0
    /\ aggregate_results = << >>
    /\ report = NoReport
    /\ sink = NoFile
    /\ stdout = << >>
    /\ error = "none"

NoVerdict == [fn |-> "none", out |-> << >>]

IdleText ==
    /\ text1 = Empty
    /\ text2 = Empty
    /\ verdict = NoVerdict

\* The script has loaded both files and is about to call evaluate_dataset.
InitEval ==
    /\ ground_truth \in SeqsUpTo(SampleRecords, MaxRecords)
    /\ predictions \in SeqsUpTo(SampleRecords, MaxRecords)
    /\ pc = "evaluate"
    /\ idx = 0
    /\ fpos = 0
    /\ entry_results = << >>
    /\ results = << >>
    /\ field_metrics = NoMetrics
    /\ apos = 0
    /\ ppos = 0
    /\ aggregate_results = << >>
    /\ report = NoReport
    /\ sink = NoFile
    /\ stdout = << >>
    /\ error = "none"

(***************************************************************************)
(* evaluate_dataset, one step per field of a paired record, then one step  *)
(* per field of the post-pass.                                             *)
(***************************************************************************)
BeginEvaluate ==
    /\ pc = "evaluate"
    /\ results' = << >>
    /\ field_metrics' = NoMetrics
    /\ idx' = 0
    /\ fpos' = 0
    /\ entry_results' = << >>
    /\ pc' = "loop"
    /\ UNCHANGED <<ppos, ground_truth, predictions, apos, aggregate_results, report,
                   sink, stdout, error>>
    /\ UNCHANGED <<textVars, genVars>>

EvalField ==
    /\ pc = "loop"
    /\ idx < Len(Zip(ground_truth, predictions))
    /\ LET pair == Zip(ground_truth, predictions)[idx + 1]
           definition == FIELD_DEFINITIONS[fpos + 1]
           field == definition.name
           gt_value == Get(pair[1], field)
           pred_value == Get(pair[2], field)
       IN  \E res \in FieldVerdicts(definition.evaluation, gt_value, pred_value) :
             /\ field_metrics' =
                  [field_metrics EXCEPT
                     ![field] = UpdateMetrics(@, definition.evaluation, res)]
             /\ IF fpos + 1 = NumFields
                THEN /\ results' = Append(results, DictSet(entry_results, field, res))
                     /\ entry_results' = << >>
                     /\ idx' = idx + 1
                     /\ fpos' = 0
                ELSE /\ entry_results' = DictSet(entry_results, field, res)
                     /\ fpos' = fpos + 1
                     /\ UNCHANGED <<results, idx>>
    /\ UNCHANGED <<ppos, ground_truth, predictions, pc, apos, aggregate_results, report,
                   sink, stdout, error>>
    /\ UNCHANGED <<textVars, genVars>>

EndLoop ==
    /\ pc = "loop"
    /\ idx = Len(Zip(ground_truth, predictions))
    /\ pc' = "aggregate"
    /\ apos' = 0
    /\ aggregate_results' = << >>
    /\ UNCHANGED <<ppos, ground_truth, predictions, idx, fpos, entry_results, results,
                   field_metrics, report, sink, stdout, error>>
    /\ UNCHANGED <<textVars, genVars>>

AggregateField ==
    /\ pc = "aggregate"
    /\ apos < NumFields
    /\ LET definition == FIELD_DEFINITIONS[apos + 1]
           field == definition.name
           metrics == field_metrics[field]
       IN  IF AggregateRaises(definition.evaluation, metrics)
           THEN /\ pc' = "raised"
                /\ error' = "ZeroDivisionError"
                /\ UNCHANGED <<apos, aggregate_results>>
           ELSE /\ aggregate_results' =
                     DictSet(aggregate_results, field,
                             AggregateMetric(definition.evaluation, metrics))
                /\ apos' = apos + 1
                /\ UNCHANGED <<pc, error>>
    /\ UNCHANGED <<ppos, ground_truth, predictions, idx, fpos, entry_results, results,
                   field_metrics, report, sink, stdout>>
    /\ UNCHANGED <<textVars, genVars>>

ReturnReport ==
    /\ pc = "aggregate"
    /\ apos = NumFields
    /\ report' = [individual_results |-> results,
                  aggregate_results |-> aggregate_results]
    /\ pc' = "save"
    /\ UNCHANGED <<ppos, ground_truth, predictions, idx, fpos, entry_results, results,
                   field_metrics, apos, aggregate_results, sink, stdout, error>>
    /\ UNCHANGED <<textVars, genVars>>

(***************************************************************************)
(* The rest of the script: save the report, then print the summary.        *)
(***************************************************************************)
\* A save that logs a failed write and goes on to the summary.
SaveReportSwallow ==
    /\ pc = "save"
    /\ \E outcome \in {"written", "open_fails", "dump_fails"} :
         /\ sink' = IF outcome = "written"
                    THEN [status |-> "written", content |-> report]
                    ELSE IF outcome = "open_fails" THEN sink
                    ELSE [status |-> "partial", content |-> NoReport]
         /\ pc' = "header"
         /\ UNCHANGED error
    /\ UNCHANGED <<ppos, ground_truth, predictions, idx, fpos, entry_results, results,
                   field_metrics, apos, aggregate_results, report, stdout>>
    /\ UNCHANGED <<textVars, genVars>>

\* open(..., "w") can fail and leave the file alone; json.dump can fail after
\* the file was truncated.
SaveReport ==
    /\ pc = "save"
    /\ \E outcome \in {"written", "open_fails", "dump_fails"} :
         IF outcome = "written"
         THEN /\ sink' = [status |-> "written", content |-> report]
              /\ pc' = "header"
              /\ UNCHANGED error
         ELSE /\ sink' = IF outcome = "open_fails" THEN sink
                         ELSE [status |-> "partial", content |-> NoReport]
              /\ pc' = "raised"
              /\ error' = "OSError"
    /\ UNCHANGED <<ppos, ground_truth, predictions, idx, fpos, entry_results, results,
                   field_metrics, apos, aggregate_results, report, stdout>>
    /\ UNCHANGED <<textVars, genVars>>

PrintHeader ==
    /\ pc = "header"
    /\ stdout' = Append(stdout, [kind |-> "header", text |-> "Evaluation Summary:"])
    /\ pc' = "summary"
    /\ ppos' = 0
    /\ UNCHANGED <<ground_truth, predictions, idx, fpos, entry_results, results,
                   field_metrics, apos, aggregate_results, report, sink, error>>
    /\ UNCHANGED <<textVars, genVars>>

PrintField ==
    /\ pc = "summary"
    /\ ppos < Len(report.aggregate_results)
    /\ LET item == report.aggregate_results[ppos + 1]
       IN  stdout' = stdout \o SummaryLines(item.k, item.v)
    /\ ppos' = ppos + 1
    /\ UNCHANGED <<ground_truth, predictions, pc, idx, fpos, entry_results, results,
                   field_metrics, apos, aggregate_results, report, sink, error>>
    /\ UNCHANGED <<textVars, genVars>>

PrintFooter ==
    /\ pc = "summary"
    /\ ppos = Len(report.aggregate_results)
    /\ stdout' = Append(stdout, [kind |-> "footer",
                                 text |-> "Detailed results saved to 'evaluation_results.json'"])
    /\ pc' = "done"
    /\ UNCHANGED <<ground_truth, predictions, idx, fpos, entry_results, results,
                   field_metrics, apos, ppos, aggregate_results, report, sink,
                   error>>
    /\ UNCHANGED <<textVars, genVars>>

Next ==
    \/ BeginEvaluate
    \/ EvalField
    \/ EndLoop
    \/ AggregateField
    \/ ReturnReport
    \/ SaveReport
    \/ PrintHeader
    \/ PrintField
    \/ PrintFooter

(***************************************************************************)
(* One call of a field comparator on any two strings.                      *)
(***************************************************************************)
InitText ==
    /\ text1 \in Strings
    /\ text2 \in Strings
    /\ verdict = NoVerdict

CompareExact ==
    /\ verdict = NoVerdict
    /\ verdict' = [fn |-> "exact", out |-> evaluate_exact_field(text1, text2)]
    /\ UNCHANGED <<text1, text2>>
    /\ UNCHANGED <<evalVars, genVars>>

CompareNer ==
    /\ verdict = NoVerdict
    /\ verdict' = [fn |-> "ner", out |-> evaluate_ner_field(text1, text2)]
    /\ UNCHANGED <<text1, text2>>
    /\ UNCHANGED <<evalVars, genVars>>

CompareSemantic ==
    /\ verdict = NoVerdict
    /\ \E v \in evaluate_semantic_field(text1, text2) :
         verdict' = [fn |-> "semantic", out |-> v]
    /\ UNCHANGED <<text1, text2>>
    /\ UNCHANGED <<evalVars, genVars>>

TextNext ==
    \/ CompareExact
    \/ CompareNer
    \/ CompareSemantic

(***************************************************************************)
(* The prediction generator.  JSON values are [type, text]; a parsed       *)
(* answer is [kind, items] with items an ordered dictionary (or the        *)
(* elements of a list under the key "").                                   *)
(***************************************************************************)
Str(s) == [type |-> "str", text |-> s]

Num(s) == [type |-> "num", text |-> s]

Null == [type |-> "null", text |-> Empty]

None == [kind |-> "None", items |-> << >>]

Dict(items) == [kind |-> "dict", items |-> items]

List(items) == [kind |-> "list", items |-> items]

required_fields == <<"Project Name", "Public Name Tag", "UI/Website Link", "Public Note">>

\* bool(value) of a JSON value
ValueTruthy(v) ==
    /\ v.type # "null"
    /\ v.type = "str" => v.text # Empty
    /\ v.type = "num" => v.text # <<"0">>

\* bool(result)
Truthy(r) == r.kind # "None" /\ r.items # << >>

Whitespace == {" "}

RECURSIVE LStrip(_)
LStrip(s) == IF s # Empty /\ Head(s) \in Whitespace THEN LStrip(Tail(s)) ELSE s

RECURSIVE RStrip(_)
RStrip(s) ==
    IF s # Empty /\ s[Len(s)] \in Whitespace
    THEN RStrip(SubSeq(s, 1, Len(s) - 1)) ELSE s

\* str.strip()
Strip(s) == RStrip(LStrip(s))

JsonWord == <<"j", "s", "o", "n">>

\* str.replace("json", ""): every occurrence, left to right, in one pass.
RECURSIVE RemoveJson(_)
RemoveJson(s) ==
    IF s = Empty THEN Empty
    ELSE IF Len(s) >= Len(JsonWord) /\ SubSeq(s, 1, Len(JsonWord)) = JsonWord
         THEN RemoveJson(SubSeq(s, Len(JsonWord) + 1, Len(s)))
         ELSE <<Head(s)>> \o RemoveJson(Tail(s))

\* What json.loads sees of the answer after the clean-up of its text: the
\* fence lines are dropped and "json" is deleted wherever it occurs, inside
\* the values too.
CleanValue(v) == IF v.type = "str" THEN Str(RemoveJson(v.text)) ELSE v

CleanItems(items) ==
    [i \in 1..Len(items) |-> [k |-> items[i].k, v |-> CleanValue(items[i].v)]]

\* query_perplexity for one response of the service.
query_perplexity(response) ==
    IF response.kind = "answer"
    THEN [kind |-> response.data.kind, items |-> CleanItems(response.data.items)]
    ELSE None

\* validate_prediction without the test of line 154 for a blank string.
validate_prediction_no_strip(data) ==
    IF data.kind # "dict" THEN FALSE
    ELSE \A i \in 1..Len(required_fields) :
           LET field == required_fields[i]
           IN  ~ ( \/ ~HasKey(data.items, field)
                   \/ ~ValueTruthy(Lookup(data.items, field))
                   \/ Lookup(data.items, field).type # "str" )

\* data.get(field) on anything but a dict raises, and the except returns False.
validate_prediction(data) ==
    IF data.kind # "dict" THEN FALSE
    ELSE \A i \in 1..Len(required_fields) :
           LET field == required_fields[i]
           IN  ~ ( \/ ~HasKey(data.items, field)
                   \/ ~ValueTruthy(Lookup(data.items, field))
                   \/ Lookup(data.items, field).type # "str"
                   \/ Strip(Lookup(data.items, field).text) = Empty )

\* dict.update
RECURSIVE Update(_, _)
Update(d, items) ==
    IF items = << >> THEN d
    ELSE Update(DictSet(d, Head(items).k, Head(items).v), Tail(items))

EmptyPrediction(addr) ==
    << [k |-> "Contract Address", v |-> Str(addr)],
       [k |-> "Project Name", v |-> Str(Empty)],
       [k |-> "Public Name Tag", v |-> Str(Empty)],
       [k |-> "UI/Website Link", v |-> Str(Empty)],
       [k |-> "Public Note", v |-> Str(Empty)] >>

\* The prediction main writes for an address and a query result.
Prediction(addr, res) ==
    IF Truthy(res) /\ validate_prediction(res)
    THEN Update(EmptyPrediction(addr), res.items)
    ELSE EmptyPrediction(addr)

(***************************************************************************)
(* Inputs of the generator.                                                *)
(***************************************************************************)
Addr1 == <<"a">>

Addr2 == <<"b">>

EntryA == [f \in {"Contract Address", "Project Name"} |->
             IF f = "Contract Address" THEN Addr1 ELSE <<"a", "b">>]

EntryB == [f \in {"Contract Address"} |-> Addr2]

EntryNoAddress == [f \in {"Project Name"} |-> <<"a">>]

SampleEntries == {EntryA, EntryB, EntryNoAddress}

Answer(pn, tag, link, note) ==
    << [k |-> "Project Name", v |-> pn],
       [k |-> "Public Name Tag", v |-> tag],
       [k |-> "UI/Website Link", v |-> link],
       [k |-> "Public Note", v |-> note] >>

GoodAnswer == Answer(Str(<<"a">>), Str(<<"b">>), Str(<<"a", "b">>), Str(<<"a", " ", "b">>))

SampleAnswers ==
    { Dict(GoodAnswer),
      \* the answer repeats an address of its own
      Dict(Append(GoodAnswer, [k |-> "Contract Address", v |-> Str(<<"c">>)])),
      \* a value made of the word the clean-up deletes
      Dict(Answer(Str(<<"a">>), Str(<<"b">>), Str(JsonWord), Str(<<"a">>))),
      Dict(Answer(Str(<<"a">>), Str(<<"j", "s", "o", "n", "b">>), Str(<<"a">>), Str(<<"a">>))),
      \* blank, empty, null, number
      Dict(Answer(Str(<<"a">>), Str(<<" ">>), Str(<<"a">>), Str(<<"a">>))),
      Dict(Answer(Str(<<"a">>), Str(<<"b">>), Str(Empty), Str(<<"a">>))),
      Dict(Answer(Str(<<"a">>), Str(<<"b">>), Str(<<"a">>), Null)),
      Dict(Answer(Num(<<"7">>), Str(<<"b">>), Str(<<"a">>), Str(<<"a">>))),
      \* a key is missing
      Dict(<<[k |-> "Project Name", v |-> Str(<<"a">>)]>>),
      Dict(<< >>),
      List(<<[k |-> "", v |-> Str(<<"a">>)]>>) }

Responses ==
    {[kind |-> k, data |-> None] :
        k \in {"no_api_key", "request_exception", "http_error", "bad_json"}}
    \cup {[kind |-> "answer", data |-> d] : d \in SampleAnswers}

IdleGen ==
    /\ entries = << >>
    /\ gpc = "idle"
    /\ gi = 0
    /\ address = Empty
    /\ result = None
    /\ output = << >>
    /\ predictions_list = << >>
    /\ failed_addresses = << >>
    /\ gerror = "none"

\* main has loaded the entries and opened the output file for writing.
InitGen ==
    /\ entries \in SeqsUpTo(SampleEntries, MaxEntries)
    /\ gpc = "loop"
    /\ gi = 0
    /\ address = Empty
    /\ result = None
    /\ output = << >>
    /\ predictions_list = << >>
    /\ failed_addresses = << >>
    /\ gerror = "none"

(***************************************************************************)
(* main: one entry is queried, then its prediction is written.             *)
(***************************************************************************)
Query ==
    /\ gpc = "loop"
    /\ gi < Len(entries)
    /\ "Contract Address" \in DOMAIN entries[gi + 1]
    /\ address' = entries[gi + 1]["Contract Address"]
    /\ \E response \in Responses : result' = query_perplexity(response)
    /\ gpc' = "write"
    /\ UNCHANGED <<entries, gi, output, predictions_list, failed_addresses, gerror>>
    /\ UNCHANGED <<evalVars, textVars>>

\* entry["Contract Address"] raises KeyError, which the except of main logs.
EntryKeyError ==
    /\ gpc = "loop"
    /\ gi < Len(entries)
    /\ "Contract Address" \notin DOMAIN entries[gi + 1]
    /\ gerror' = "KeyError"
    /\ gpc' = "done"
    /\ UNCHANGED <<entries, gi, address, result, output, predictions_list,
                   failed_addresses>>
    /\ UNCHANGED <<evalVars, textVars>>

WritePrediction ==
    /\ gpc = "write"
    /\ LET prediction == Prediction(address, result)
       IN  /\ failed_addresses' =
                IF Truthy(result) /\ validate_prediction(result)
                THEN failed_addresses
                ELSE Append(failed_addresses, address)
           /\ output' = Append(output, prediction)
           /\ predictions_list' = Append(predictions_list, prediction)
    /\ gi' = gi + 1
    /\ gpc' = "loop"
    /\ UNCHANGED <<entries, address, result, gerror>>
    /\ UNCHANGED <<evalVars, textVars>>

Finish ==
    /\ gpc = "loop"
    /\ gi = Len(entries)
    /\ gpc' = "done"
    /\ UNCHANGED <<entries, gi, address, result, output, predictions_list,
                   failed_addresses, gerror>>
    /\ UNCHANGED <<evalVars, textVars>>

GenNext ==
    \/ Query
    \/ EntryKeyError
    \/ WritePrediction
    \/ Finish

(***************************************************************************)
(* Specifications.                                                         *)
(***************************************************************************)
Init == InitEval /\ IdleText /\ IdleGen

Spec == Init /\ [][Next]_vars

TextInit == IdleEval /\ InitText /\ IdleGen

SpecText == TextInit /\ [][TextNext]_vars

GenInit == IdleEval /\ IdleText /\ InitGen

SpecGen == GenInit /\ [][GenNext]_vars

(***************************************************************************)
(* Properties of evaluate_dataset, checked under Spec.                     *)
(***************************************************************************)
Started == pc \notin {"idle", "evaluate"}

LoopOver == pc \notin {"idle", "evaluate", "loop"}

Paired == Min(Len(ground_truth), Len(predictions))

\* The verdict of field number f in record verdict rv.
VerdictAt(rv, f) == rv[f].v

C2_TotalsTrackRecords ==
    Started =>
        /\ idx = Len(results)
        /\ \A f \in 1..NumFields :
             field_metrics[FieldOrder[f]].total = idx + (IF f <= fpos THEN 1 ELSE 0)
        /\ fpos = 0 =>
             \A f, g \in FieldNames : field_metrics[f].total = field_metrics[g].total

C2_Witness ==
    /\ pc = "loop"
    /\ fpos = 0
    /\ idx = 2
    /\ \A f \in FieldNames : field_metrics[f].total = 2

\* C3: for every exact and ner field exact <= near <= total after every
\* step, and every ner verdict with exact_match = 1 has near_match = 1.
C3_ExactWithinNear ==
    /\ \A f \in FieldNames :
         Strategy(f) \in {"exact", "ner"} =>
            /\ field_metrics[f].exact <= field_metrics[f].near
            /\ field_metrics[f].near <= field_metrics[f].total
    /\ \A i \in 1..Len(results) : \A f \in 1..Len(results[i]) :
         (Strategy(results[i][f].k) = "ner" /\ results[i][f].v.exact_match = 1)
            => results[i][f].v.near_match = 1
    /\ \A f \in 1..Len(entry_results) :
         (Strategy(entry_results[f].k) = "ner" /\ entry_results[f].v.exact_match = 1)
            => entry_results[f].v.near_match = 1

\* A ner field with an exact pair and a near pair that is not exact, and
\* another ner field matched exactly by strings that differ in case.
C3_Witness ==
    /\ pc = "aggregate"
    /\ field_metrics["Public Name Tag"] = [exact |-> 1, near |-> 2, total |-> 2]
    /\ \E i \in 1..Len(results) :
         /\ VerdictAt(results[i], 3).exact_match = 1
         /\ VerdictAt(results[i], 3).ground_truth # VerdictAt(results[i], 3).prediction

\* C4: evaluate_dataset returns a report with an aggregate metric for every
\* schema field for any two inputs, those with no paired record included; no
\* division by zero escapes the post-pass.
C4_ReportForAnyInput ==
    /\ error # "ZeroDivisionError"
    /\ pc \in {"save", "header", "summary", "done"} =>
         Keys(report.aggregate_results) = FieldOrder

\* C5: with total > 0, precision = exact/total, recall = near/total,
\* exact_match_rate = precision, f1_score = 2*precision*recall/(precision +
\* recall) and 0 when precision + recall = 0; for the semantic field
\* semantic_similarity_rate = near/total.
C5_AggregateFormulas ==
    \A i \in 1..Len(aggregate_results) :
        LET field == aggregate_results[i].k
            a == aggregate_results[i].v
            e == field_metrics[field].exact
            n == field_metrics[field].near
            tot == field_metrics[field].total
        IN  /\ tot > 0
            /\ IF Strategy(field) \in {"exact", "ner"}
               THEN /\ DOMAIN a = {"precision", "recall", "f1_score", "exact_match_rate"}
                    /\ a.precision[1] * tot = e * a.precision[2]
                    /\ a.recall[1] * tot = n * a.recall[2]
                    /\ a.exact_match_rate = a.precision
                    /\ IF e + n = 0
                       THEN a.f1_score = <<0, 1>>
                       ELSE a.f1_score[1] * (tot * (e + n)) = (2 * e * n) * a.f1_score[2]
                    /\ a.precision[2] > 0 /\ a.recall[2] > 0 /\ a.f1_score[2] > 0
               ELSE /\ DOMAIN a = {"semantic_similarity_rate"}
                    /\ a.semantic_similarity_rate[1] * tot
                         = n * a.semantic_similarity_rate[2]
                    /\ a.semantic_similarity_rate[2] > 0

\* exact 1, near 2, total 2 gives precision 1/2, recall 1 and F1 2/3; a
\* field with no match at all gives F1 0.
C5_Witness ==
    /\ pc = "save"
    /\ \E i \in 1..Len(aggregate_results) :
         /\ Strategy(aggregate_results[i].k) = "ner"
         /\ aggregate_results[i].v.precision = <<1, 2>>
         /\ aggregate_results[i].v.recall = <<1, 1>>
         /\ aggregate_results[i].v.f1_score = <<2, 3>>
    /\ \E i \in 1..Len(aggregate_results) :
         /\ Strategy(aggregate_results[i].k) # "semantic"
         /\ aggregate_results[i].v.precision = <<0, 1>>
         /\ aggregate_results[i].v.recall = <<0, 1>>
         /\ aggregate_results[i].v.f1_score = <<0, 1>>

ShapeOf(evaluation) ==
    IF evaluation = "exact" THEN {"exact_match", "ground_truth", "prediction"}
    ELSE IF evaluation = "ner"
         THEN {"exact_match", "near_match", "similarity", "ground_truth", "prediction"}
         ELSE {"similarity", "meets_threshold", "ground_truth", "prediction"}

\* C6: every record verdict has exactly the five schema fields as keys, in
\* schema order, whatever keys the input records have; a missing key is
\* compared as the empty string; and each field's verdict has the shape of
\* its declared strategy and carries the raw strings.
C6_VerdictShape ==
    \A i \in 1..Len(results) :
        /\ Keys(results[i]) = FieldOrder
        /\ \A f \in 1..NumFields :
             LET v == results[i][f].v
                 field == FieldOrder[f]
                 gt_raw == IF field \in DOMAIN ground_truth[i]
                           THEN ground_truth[i][field] ELSE << >>
                 pred_raw == IF field \in DOMAIN predictions[i]
                             THEN predictions[i][field] ELSE << >>
             IN  /\ DOMAIN v = ShapeOf(FIELD_DEFINITIONS[f].evaluation)
                 /\ v.ground_truth = gt_raw
                 /\ v.prediction = pred_raw

\* A record with an unrecognised key judged against a record with no schema
\* key at all.
C6_Witness ==
    /\ Len(results) >= 1
    /\ "Extra" \in DOMAIN ground_truth[1]
    /\ DOMAIN predictions[1] \cap FieldNames = {}
    /\ DOMAIN ground_truth[1] \cap FieldNames # {}

PrintedFields ==
    LET IsField(l) == l.kind = "field"
        lines == SelectSeq(stdout, IsField)
    IN  [i \in 1..Len(lines) |-> lines[i].text]

\* C8: nothing of the summary is printed before the full report is in the
\* sink; a run that completes has printed an entry for every schema field in
\* schema order; a run that failed in the evaluation or in the write has
\* printed nothing.
C8_ReportBeforeSummary ==
    /\ stdout # << >> =>
         /\ sink.status = "written"
         /\ sink.content = report
         /\ Keys(report.aggregate_results) = FieldOrder
    /\ pc = "done" => PrintedFields = FieldOrder
    /\ pc = "summary" => PrintedFields = SubSeq(FieldOrder, 1, ppos)
    /\ pc = "raised" => stdout = << >>
    /\ error # "none" => stdout = << >>

C8_Witness ==
    /\ pc = "done"
    /\ PrintedFields = FieldOrder
    /\ sink.status = "written"
    /\ Len(sink.content.individual_results) = 2

(***************************************************************************)
(* Properties of the comparators, checked under SpecText.                  *)
(***************************************************************************)
NoWord(s) == \A i \in 1..Len(s) : s[i] \notin WordChars

\* C9: for two strings of which at least one has no word token the cosine is
\* 0.0 and the semantic verdict has meets_threshold = 0.
C9_DegenerateCosine ==
    (verdict.fn = "semantic" /\ (NoWord(text1) \/ NoWord(text2))) =>
        /\ verdict.out.similarity = <<0, 1>>
        /\ verdict.out.meets_threshold = 0

\* Only one of the strings has no token, and it is not empty.
C9_Witness ==
    /\ verdict.fn = "semantic"
    /\ text1 = <<" ", " ">>
    /\ text2 = <<"a", " ", "b">>
    /\ verdict.out.meets_threshold = 0

SharedChar(a, b) ==
    \E i \in 1..Len(a) : \E j \in 1..Len(b) : LowerChar(a[i]) = LowerChar(b[j])

C7_AlignedOutput ==
    (gpc = "done" /\ \A i \in 1..Len(entries) : "Contract Address" \in DOMAIN entries[i])
        => /\ Len(output) = Len(entries)
           /\ \A i \in 1..Len(output) :
                Lookup(output[i], "Contract Address")
                  = Str(entries[i]["Contract Address"])

\* The four predicted fields of a written record are all non-blank strings.
AllFilled(rec) ==
    \A i \in 1..Len(required_fields) :
       /\ HasKey(rec, required_fields[i])
       /\ Lookup(rec, required_fields[i]).type = "str"
       /\ Strip(Lookup(rec, required_fields[i]).text) # Empty

\* The four predicted fields of a written record are all the empty string.
AllEmpty(rec) ==
    \A i \in 1..Len(required_fields) :
       /\ HasKey(rec, required_fields[i])
       /\ Lookup(rec, required_fields[i]) = Str(Empty)

\* One of the four fields is missing from the answer, not a string, or blank.
LacksField(res) ==
    \/ res.kind # "dict"
    \/ \E i \in 1..Len(required_fields) :
          \/ ~HasKey(res.items, required_fields[i])
          \/ Lookup(res.items, required_fields[i]).type # "str"
          \/ Strip(Lookup(res.items, required_fields[i]).text) = Empty

\* The record written last is the one of the query whose result is still held.
JustWritten == gpc \in {"loop", "done"} /\ gi >= 1 /\ Len(output) = gi

\* C11: every written record has its four predicted fields either all
\* non-blank strings or all empty, never a mixture; the record written for an
\* answer that lacks one of the four (missing, not a string, blank) has all
\* four empty and its address is the last of the failed list; the record
\* written for any other answer carries that answer's four values; and the
\* failed list has one address per all-empty record.
C11_AllOrNothing ==
    /\ \A i \in 1..Len(output) : AllFilled(output[i]) \/ AllEmpty(output[i])
    /\ Len(failed_addresses)
         = Cardinality({i \in 1..Len(output) : AllEmpty(output[i])})
    /\ JustWritten =>
         IF LacksField(result)
         THEN /\ AllEmpty(output[gi])
              /\ failed_addresses # << >>
              /\ failed_addresses[Len(failed_addresses)] = address
              /\ Lookup(output[gi], "Contract Address") = Str(address)
         ELSE /\ AllFilled(output[gi])
              /\ \A i \in 1..Len(required_fields) :
                    Lookup(output[gi], required_fields[i])
                      = Lookup(result.items, required_fields[i])

\* A filled record followed by an all-empty one written for an answer whose
\* name tag is a blank string, with that entry's address as the only failure.
C11_Witness ==
    /\ JustWritten
    /\ gi = 2
    /\ AllFilled(output[1])
    /\ AllEmpty(output[2])
    /\ result.kind = "dict"
    /\ HasKey(result.items, "Public Name Tag")
    /\ Lookup(result.items, "Public Name Tag") = Str(<<" ">>)
    /\ failed_addresses = <<address>>

====
